---- MODULE Spec2Model ----
(***************************************************************************)
(* A model of the mana_cost library (src/src/mana_cost/__init__.py): the   *)
(* regular-expression parser of ManaCost.__init__, the properties          *)
(* num_variations, min_mana_cost, max_mana_cost and combinations, the      *)
(* ComparableCounter comparisons, and the five relational operators of     *)
(* ManaCost (three written in the class, two added by total_ordering).     *)
(*                                                                         *)
(* A Python str is a sequence of characters, a token is such a sequence    *)
(* too.  An ASCII character is the string of that character; any other     *)
(* character is the string "U+XXXX" naming its code point (one element of  *)
(* the sequence all the same).  A Counter is a function whose DOMAIN is    *)
(* the set of keys the dict holds (a key stored with count 0 is in the     *)
(* DOMAIN).  A call that returns v is ReturnBool(v), ReturnInt(v) or       *)
(* ReturnCounter(v); one that raises E is Raise("E").  The interpreter is  *)
(* CPython 3.11 with its defaults: Unicode 14.0, a randomised str hash,    *)
(* and at most 4300 digits in a str that int() converts.                   *)
(***************************************************************************)
EXTENDS Integers, Sequences, FiniteSets, TLC

VARIABLES X, Y, g, call, ret

vars == <<X, Y, g, call, ret>>

\* ---------------------------------------------------------------- bounds
\* The largest number of tokens in a generated mana-cost text.
MaxTokens == 2

\* ------------------------------------------------------------- characters
\* [RUBGWCPX] of base_mana_re.
Letters == {"R", "U", "B", "G", "W", "C", "P", "X"}

\* The decimal digits of Unicode 14.0 (category Nd), the database of the
\* interpreter: 66 runs of ten characters, each run the digits 0 to 9 of
\* one script.
DecimalDigits ==
    << <<"0", "1", "2", "3", "4", "5", "6", "7", "8", "9">>,
       <<"U+0660", "U+0661", "U+0662", "U+0663", "U+0664", "U+0665", "U+0666", "U+0667", "U+0668", "U+0669">>,
       <<"U+06F0", "U+06F1", "U+06F2", "U+06F3", "U+06F4", "U+06F5", "U+06F6", "U+06F7", "U+06F8", "U+06F9">>,
       <<"U+07C0", "U+07C1", "U+07C2", "U+07C3", "U+07C4", "U+07C5", "U+07C6", "U+07C7", "U+07C8", "U+07C9">>,
       <<"U+0966", "U+0967", "U+0968", "U+0969", "U+096A", "U+096B", "U+096C", "U+096D", "U+096E", "U+096F">>,
       <<"U+09E6", "U+09E7", "U+09E8", "U+09E9", "U+09EA", "U+09EB", "U+09EC", "U+09ED", "U+09EE", "U+09EF">>,
       <<"U+0A66", "U+0A67", "U+0A68", "U+0A69", "U+0A6A", "U+0A6B", "U+0A6C", "U+0A6D", "U+0A6E", "U+0A6F">>,
       <<"U+0AE6", "U+0AE7", "U+0AE8", "U+0AE9", "U+0AEA", "U+0AEB", "U+0AEC", "U+0AED", "U+0AEE", "U+0AEF">>,
       <<"U+0B66", "U+0B67", "U+0B68", "U+0B69", "U+0B6A", "U+0B6B", "U+0B6C", "U+0B6D", "U+0B6E", "U+0B6F">>,
       <<"U+0BE6", "U+0BE7", "U+0BE8", "U+0BE9", "U+0BEA", "U+0BEB", "U+0BEC", "U+0BED", "U+0BEE", "U+0BEF">>,
       <<"U+0C66", "U+0C67", "U+0C68", "U+0C69", "U+0C6A", "U+0C6B", "U+0C6C", "U+0C6D", "U+0C6E", "U+0C6F">>,
       <<"U+0CE6", "U+0CE7", "U+0CE8", "U+0CE9", "U+0CEA", "U+0CEB", "U+0CEC", "U+0CED", "U+0CEE", "U+0CEF">>,
       <<"U+0D66", "U+0D67", "U+0D68", "U+0D69", "U+0D6A", "U+0D6B", "U+0D6C", "U+0D6D", "U+0D6E", "U+0D6F">>,
       <<"U+0DE6", "U+0DE7", "U+0DE8", "U+0DE9", "U+0DEA", "U+0DEB", "U+0DEC", "U+0DED", "U+0DEE", "U+0DEF">>,
       <<"U+0E50", "U+0E51", "U+0E52", "U+0E53", "U+0E54", "U+0E55", "U+0E56", "U+0E57", "U+0E58", "U+0E59">>,
       <<"U+0ED0", "U+0ED1", "U+0ED2", "U+0ED3", "U+0ED4", "U+0ED5", "U+0ED6", "U+0ED7", "U+0ED8", "U+0ED9">>,
       <<"U+0F20", "U+0F21", "U+0F22", "U+0F23", "U+0F24", "U+0F25", "U+0F26", "U+0F27", "U+0F28", "U+0F29">>,
       <<"U+1040", "U+1041", "U+1042", "U+1043", "U+1044", "U+1045", "U+1046", "U+1047", "U+1048", "U+1049">>,
       <<"U+1090", "U+1091", "U+1092", "U+1093", "U+1094", "U+1095", "U+1096", "U+1097", "U+1098", "U+1099">>,
       <<"U+17E0", "U+17E1", "U+17E2", "U+17E3", "U+17E4", "U+17E5", "U+17E6", "U+17E7", "U+17E8", "U+17E9">>,
       <<"U+1810", "U+1811", "U+1812", "U+1813", "U+1814", "U+1815", "U+1816", "U+1817", "U+1818", "U+1819">>,
       <<"U+1946", "U+1947", "U+1948", "U+1949", "U+194A", "U+194B", "U+194C", "U+194D", "U+194E", "U+194F">>,
       <<"U+19D0", "U+19D1", "U+19D2", "U+19D3", "U+19D4", "U+19D5", "U+19D6", "U+19D7", "U+19D8", "U+19D9">>,
       <<"U+1A80", "U+1A81", "U+1A82", "U+1A83", "U+1A84", "U+1A85", "U+1A86", "U+1A87", "U+1A88", "U+1A89">>,
       <<"U+1A90", "U+1A91", "U+1A92", "U+1A93", "U+1A94", "U+1A95", "U+1A96", "U+1A97", "U+1A98", "U+1A99">>,
       <<"U+1B50", "U+1B51", "U+1B52", "U+1B53", "U+1B54", "U+1B55", "U+1B56", "U+1B57", "U+1B58", "U+1B59">>,
       <<"U+1BB0", "U+1BB1", "U+1BB2", "U+1BB3", "U+1BB4", "U+1BB5", "U+1BB6", "U+1BB7", "U+1BB8", "U+1BB9">>,
       <<"U+1C40", "U+1C41", "U+1C42", "U+1C43", "U+1C44", "U+1C45", "U+1C46", "U+1C47", "U+1C48", "U+1C49">>,
       <<"U+1C50", "U+1C51", "U+1C52", "U+1C53", "U+1C54", "U+1C55", "U+1C56", "U+1C57", "U+1C58", "U+1C59">>,
       <<"U+A620", "U+A621", "U+A622", "U+A623", "U+A624", "U+A625", "U+A626", "U+A627", "U+A628", "U+A629">>,
       <<"U+A8D0", "U+A8D1", "U+A8D2", "U+A8D3", "U+A8D4", "U+A8D5", "U+A8D6", "U+A8D7", "U+A8D8", "U+A8D9">>,
       <<"U+A900", "U+A901", "U+A902", "U+A903", "U+A904", "U+A905", "U+A906", "U+A907", "U+A908", "U+A909">>,
       <<"U+A9D0", "U+A9D1", "U+A9D2", "U+A9D3", "U+A9D4", "U+A9D5", "U+A9D6", "U+A9D7", "U+A9D8", "U+A9D9">>,
       <<"U+A9F0", "U+A9F1", "U+A9F2", "U+A9F3", "U+A9F4", "U+A9F5", "U+A9F6", "U+A9F7", "U+A9F8", "U+A9F9">>,
       <<"U+AA50", "U+AA51", "U+AA52", "U+AA53", "U+AA54", "U+AA55", "U+AA56", "U+AA57", "U+AA58", "U+AA59">>,
       <<"U+ABF0", "U+ABF1", "U+ABF2", "U+ABF3", "U+ABF4", "U+ABF5", "U+ABF6", "U+ABF7", "U+ABF8", "U+ABF9">>,
       <<"U+FF10", "U+FF11", "U+FF12", "U+FF13", "U+FF14", "U+FF15", "U+FF16", "U+FF17", "U+FF18", "U+FF19">>,
       <<"U+104A0", "U+104A1", "U+104A2", "U+104A3", "U+104A4", "U+104A5", "U+104A6", "U+104A7", "U+104A8", "U+104A9">>,
       <<"U+10D30", "U+10D31", "U+10D32", "U+10D33", "U+10D34", "U+10D35", "U+10D36", "U+10D37", "U+10D38", "U+10D39">>,
       <<"U+11066", "U+11067", "U+11068", "U+11069", "U+1106A", "U+1106B", "U+1106C", "U+1106D", "U+1106E", "U+1106F">>,
       <<"U+110F0", "U+110F1", "U+110F2", "U+110F3", "U+110F4", "U+110F5", "U+110F6", "U+110F7", "U+110F8", "U+110F9">>,
       <<"U+11136", "U+11137", "U+11138", "U+11139", "U+1113A", "U+1113B", "U+1113C", "U+1113D", "U+1113E", "U+1113F">>,
       <<"U+111D0", "U+111D1", "U+111D2", "U+111D3", "U+111D4", "U+111D5", "U+111D6", "U+111D7", "U+111D8", "U+111D9">>,
       <<"U+112F0", "U+112F1", "U+112F2", "U+112F3", "U+112F4", "U+112F5", "U+112F6", "U+112F7", "U+112F8", "U+112F9">>,
       <<"U+11450", "U+11451", "U+11452", "U+11453", "U+11454", "U+11455", "U+11456", "U+11457", "U+11458", "U+11459">>,
       <<"U+114D0", "U+114D1", "U+114D2", "U+114D3", "U+114D4", "U+114D5", "U+114D6", "U+114D7", "U+114D8", "U+114D9">>,
       <<"U+11650", "U+11651", "U+11652", "U+11653", "U+11654", "U+11655", "U+11656", "U+11657", "U+11658", "U+11659">>,
       <<"U+116C0", "U+116C1", "U+116C2", "U+116C3", "U+116C4", "U+116C5", "U+116C6", "U+116C7", "U+116C8", "U+116C9">>,
       <<"U+11730", "U+11731", "U+11732", "U+11733", "U+11734", "U+11735", "U+11736", "U+11737", "U+11738", "U+11739">>,
       <<"U+118E0", "U+118E1", "U+118E2", "U+118E3", "U+118E4", "U+118E5", "U+118E6", "U+118E7", "U+118E8", "U+118E9">>,
       <<"U+11950", "U+11951", "U+11952", "U+11953", "U+11954", "U+11955", "U+11956", "U+11957", "U+11958", "U+11959">>,
       <<"U+11C50", "U+11C51", "U+11C52", "U+11C53", "U+11C54", "U+11C55", "U+11C56", "U+11C57", "U+11C58", "U+11C59">>,
       <<"U+11D50", "U+11D51", "U+11D52", "U+11D53", "U+11D54", "U+11D55", "U+11D56", "U+11D57", "U+11D58", "U+11D59">>,
       <<"U+11DA0", "U+11DA1", "U+11DA2", "U+11DA3", "U+11DA4", "U+11DA5", "U+11DA6", "U+11DA7", "U+11DA8", "U+11DA9">>,
       <<"U+16A60", "U+16A61", "U+16A62", "U+16A63", "U+16A64", "U+16A65", "U+16A66", "U+16A67", "U+16A68", "U+16A69">>,
       <<"U+16AC0", "U+16AC1", "U+16AC2", "U+16AC3", "U+16AC4", "U+16AC5", "U+16AC6", "U+16AC7", "U+16AC8", "U+16AC9">>,
       <<"U+16B50", "U+16B51", "U+16B52", "U+16B53", "U+16B54", "U+16B55", "U+16B56", "U+16B57", "U+16B58", "U+16B59">>,
       <<"U+1D7CE", "U+1D7CF", "U+1D7D0", "U+1D7D1", "U+1D7D2", "U+1D7D3", "U+1D7D4", "U+1D7D5", "U+1D7D6", "U+1D7D7">>,
       <<"U+1D7D8", "U+1D7D9", "U+1D7DA", "U+1D7DB", "U+1D7DC", "U+1D7DD", "U+1D7DE", "U+1D7DF", "U+1D7E0", "U+1D7E1">>,
       <<"U+1D7E2", "U+1D7E3", "U+1D7E4", "U+1D7E5", "U+1D7E6", "U+1D7E7", "U+1D7E8", "U+1D7E9", "U+1D7EA", "U+1D7EB">>,
       <<"U+1D7EC", "U+1D7ED", "U+1D7EE", "U+1D7EF", "U+1D7F0", "U+1D7F1", "U+1D7F2", "U+1D7F3", "U+1D7F4", "U+1D7F5">>,
       <<"U+1D7F6", "U+1D7F7", "U+1D7F8", "U+1D7F9", "U+1D7FA", "U+1D7FB", "U+1D7FC", "U+1D7FD", "U+1D7FE", "U+1D7FF">>,
       <<"U+1E140", "U+1E141", "U+1E142", "U+1E143", "U+1E144", "U+1E145", "U+1E146", "U+1E147", "U+1E148", "U+1E149">>,
       <<"U+1E2F0", "U+1E2F1", "U+1E2F2", "U+1E2F3", "U+1E2F4", "U+1E2F5", "U+1E2F6", "U+1E2F7", "U+1E2F8", "U+1E2F9">>,
       <<"U+1E950", "U+1E951", "U+1E952", "U+1E953", "U+1E954", "U+1E955", "U+1E956", "U+1E957", "U+1E958", "U+1E959">>,
       <<"U+1FBF0", "U+1FBF1", "U+1FBF2", "U+1FBF3", "U+1FBF4", "U+1FBF5", "U+1FBF6", "U+1FBF7", "U+1FBF8", "U+1FBF9">> >>

\* \d of base_mana_re: the pattern is a str pattern, so \d matches every
\* Unicode decimal digit.
Digits == UNION {{DecimalDigits[b][d] : d \in 1..10} : b \in 1..Len(DecimalDigits)}

\* The characters that str.isdigit accepts and that are no decimal digits
\* (superscripts, circled digits, ...); \d does not match them and int()
\* rejects them.
OtherDigits ==
    { "U+00B2", "U+00B3", "U+00B9", "U+1369", "U+136A", "U+136B", "U+136C",
      "U+136D", "U+136E", "U+136F", "U+1370", "U+1371", "U+19DA", "U+2070",
      "U+2074", "U+2075", "U+2076", "U+2077", "U+2078", "U+2079", "U+2080",
      "U+2081", "U+2082", "U+2083", "U+2084", "U+2085", "U+2086", "U+2087",
      "U+2088", "U+2089", "U+2460", "U+2461", "U+2462", "U+2463", "U+2464",
      "U+2465", "U+2466", "U+2467", "U+2468", "U+2474", "U+2475", "U+2476",
      "U+2477", "U+2478", "U+2479", "U+247A", "U+247B", "U+247C", "U+2488",
      "U+2489", "U+248A", "U+248B", "U+248C", "U+248D", "U+248E", "U+248F",
      "U+2490", "U+24EA", "U+24F5", "U+24F6", "U+24F7", "U+24F8", "U+24F9",
      "U+24FA", "U+24FB", "U+24FC", "U+24FD", "U+24FF", "U+2776", "U+2777",
      "U+2778", "U+2779", "U+277A", "U+277B", "U+277C", "U+277D", "U+277E",
      "U+2780", "U+2781", "U+2782", "U+2783", "U+2784", "U+2785", "U+2786",
      "U+2787", "U+2788", "U+278A", "U+278B", "U+278C", "U+278D", "U+278E",
      "U+278F", "U+2790", "U+2791", "U+2792", "U+10A40", "U+10A41", "U+10A42",
      "U+10A43", "U+10E60", "U+10E61", "U+10E62", "U+10E63", "U+10E64", "U+10E65",
      "U+10E66", "U+10E67", "U+10E68", "U+11052", "U+11053", "U+11054", "U+11055",
      "U+11056", "U+11057", "U+11058", "U+11059", "U+1105A", "U+1F100", "U+1F101",
      "U+1F102", "U+1F103", "U+1F104", "U+1F105", "U+1F106", "U+1F107", "U+1F108",
      "U+1F109", "U+1F10A" }

\* The value int() gives a decimal digit: its place in its run.
DigitValue(c) ==
    LET b == CHOOSE b \in 1..Len(DecimalDigits) : \E d \in 1..10 : DecimalDigits[b][d] = c
    IN  (CHOOSE d \in 1..10 : DecimalDigits[b][d] = c) - 1

\* str.isdigit(): non-empty and every character a digit.
isdigit(s) == Len(s) > 0 /\ \A i \in 1..Len(s) : s[i] \in Digits \cup OtherDigits

\* sys.get_int_max_str_digits(): the longest string of digits int() converts.
MaxStrDigits == 4300

\* int(s) raises ValueError, for s a piece of a text that mana_list_re
\* matched or any other string without sign, underscore and white space:
\* when s is empty, holds a character that is no decimal digit, or is
\* longer than the limit on digits.
int_ValueError(s) ==
    \/ Len(s) = 0
    \/ Len(s) > MaxStrDigits
    \/ \E i \in 1..Len(s) : s[i] \notin Digits

\* The decimal value of a string of decimal digits.
RECURSIVE DecimalValue(_)
DecimalValue(s) ==
    IF Len(s) = 0 THEN 0
    ELSE 10 * DecimalValue(SubSeq(s, 1, Len(s) - 1)) + DigitValue(s[Len(s)])

\* int(s) where it does not raise: the decimal value, which is that of s
\* without its leading zeros.
int(s) ==
    LET nonzero == {k \in 1..Len(s) : DigitValue(s[k]) # 0}
        first   == IF nonzero = {} THEN Len(s) + 1
                   ELSE CHOOSE f \in nonzero : \A k \in nonzero : f <= k
    IN  DecimalValue(SubSeq(s, first, Len(s)))

\* What a call gave: a value of the type named by the field, or an exception.
ReturnNone == [exc |-> "", none |-> "None"]

ReturnBool(v) == [exc |-> "", bool |-> v]

ReturnInt(v) == [exc |-> "", int |-> v]

ReturnCounter(v) == [exc |-> "", counter |-> v]

ReturnGenerator == [exc |-> "", generator |-> "g"]

Raise(e) == [exc |-> e]

\* ------------------------------------------------------------------ parser
\* The end of the longest run of digits of s that starts at i (i - 1 if none).
DigitRunEnd(s, i) ==
    LET others == {k \in i..Len(s) : s[k] \notin Digits}
    IN  IF others = {} THEN Len(s)
        ELSE (CHOOSE e \in others : \A k \in others : e <= k) - 1

\* base_mana_re matched at position i of s: the position after the match,
\* or 0 when it does not match.
base_mana_re(s, i) ==
    IF i > Len(s) THEN 0
    ELSE IF s[i] \in Letters THEN i + 1
    ELSE IF s[i] \in Digits THEN DigitRunEnd(s, i) + 1
    ELSE 0

\* (?:/base_mana)* matched greedily from position j: the position after it.
RECURSIVE MoreAlternatives(_, _)
MoreAlternatives(s, j) ==
    IF j <= Len(s) /\ s[j] = "/" /\ base_mana_re(s, j + 1) # 0
    THEN MoreAlternatives(s, base_mana_re(s, j + 1))
    ELSE j

\* mana_list_re matched at position i of s: the position after the closing
\* brace, or 0 when it does not match there.
mana_list_re(s, i) ==
    IF i > Len(s) \/ s[i] # "{" THEN 0
    ELSE LET a == base_mana_re(s, i + 1)
         IN  IF a = 0 THEN 0
             ELSE LET j == MoreAlternatives(s, a)
                  IN  IF j <= Len(s) /\ s[j] = "}" THEN j + 1 ELSE 0

\* mana_list_re.findall(s) from position i on: the captured group (the text
\* between the braces) of every non-overlapping match, left to right.
RECURSIVE findall(_, _)
findall(s, i) ==
    IF i > Len(s) THEN << >>
    ELSE LET e == mana_list_re(s, i)
         IN  IF e = 0 THEN findall(s, i + 1)
             ELSE <<SubSeq(s, i + 1, e - 2)>> \o findall(s, e)

\* str.split('/'): the pieces of s between the slashes.
RECURSIVE split(_)
split(s) ==
    IF \A i \in 1..Len(s) : s[i] # "/" THEN <<s>>
    ELSE LET i == CHOOSE i \in 1..Len(s) : s[i] = "/" /\ \A j \in 1..(i - 1) : s[j] # "/"
         IN  <<SubSeq(s, 1, i - 1)>> \o split(SubSeq(s, i + 1, Len(s)))

\* set(mana.split('/')): the distinct tokens of one group.
TokenSet(mana) ==
    LET pieces == split(mana)
    IN  {pieces[i] : i \in 1..Len(pieces)}

\* list(set(...)): the lists the call can give.  A set of str is iterated
\* in the order of the hashes, which change with the hash seed of the
\* process, so every order of the elements is possible.
list(S) ==
    {order \in [1..Cardinality(S) -> S] : \A t \in S : \E i \in 1..Cardinality(S) : order[i] = t}

\* The list comprehension of __init__, list(set(mana.split('/'))) for every
\* mana that findall gave: the lists of lists it can give.
RECURSIVE ParseAll(_)
ParseAll(found) ==
    IF Len(found) = 0 THEN {<< >>}
    ELSE {<<first>> \o rest : first \in list(TokenSet(Head(found))),
                              rest \in ParseAll(Tail(found))}

\* ManaCost.__init__: the objects the constructor can build from a text,
\* one for every order of the tokens inside the groups.
ManaCost(mana_cost) ==
    {[_mana_cost |-> mana_cost, _parsed_mana |-> parsed] :
        parsed \in ParseAll(findall(mana_cost, 1))}

\* ------------------------------------------------------------------ engine
\* The key under which numeric tokens accumulate.
GENERIC == <<"G", "E", "N", "E", "R", "I", "C">>

\* ComparableCounter(): a Counter holding no key.
ComparableCounter == << >>

\* counter[k]: Counter.__missing__ gives 0 for a key the dict does not hold.
Count(counter, k) == IF k \in DOMAIN counter THEN counter[k] ELSE 0

\* counter[key] += n: the key is stored, also when the sum is 0.
Increment(counter, key, n) ==
    [k \in DOMAIN counter \cup {key} |->
        Count(counter, k) + (IF k = key THEN n ELSE 0)]

\* The loop over one mana_combo: the token is added to GENERIC when
\* int(mana) converts it and counted under its own key when int(mana)
\* raises ValueError.
RECURSIVE CountCombo(_, _)
CountCombo(mana_combo, counter) ==
    IF Len(mana_combo) = 0 THEN counter
    ELSE LET mana == Head(mana_combo)
         IN  CountCombo(Tail(mana_combo),
                        IF int_ValueError(mana)
                        THEN Increment(counter, mana, 1)
                        ELSE Increment(counter, GENERIC, int(mana)))

\* itertools.product(*lists): one tuple per choice of an element of each
\* list, the last list varying fastest; one empty tuple for no lists.
RECURSIVE product(_)
product(lists) ==
    IF Len(lists) = 0 THEN << << >> >>
    ELSE LET first == Head(lists)
             rest  == product(Tail(lists))
         IN  [n \in 1..(Len(first) * Len(rest)) |->
                <<first[((n - 1) \div Len(rest)) + 1]>>
                    \o rest[((n - 1) % Len(rest)) + 1]]

\* The body of the generator: a fresh counter filled for every mana_combo.
RECURSIVE Yield(_)
Yield(combos) ==
    IF Len(combos) = 0 THEN << >>
    ELSE <<CountCombo(Head(combos), ComparableCounter)>> \o Yield(Tail(combos))

\* The generator of ManaCost.combinations run to its end in one piece, as
\* product(self.combinations, rhs.combinations) runs it inside __eq__,
\* __lt__ and __le__: the counters it yields, in order.
combinations(self) == Yield(product(self._parsed_mana))

\* No generator object.
NoGenerator ==
    [gi_state |-> "None", pools |-> << >>, rest |-> << >>, yielded |-> << >>]

\* The generator object that reading the property combinations gives: the
\* body has not started, nothing of self has been read.
NewGenerator ==
    [gi_state |-> "GEN_CREATED", pools |-> << >>, rest |-> << >>, yielded |-> << >>]

\* The generator suspended at "yield counter": pools are the groups that
\* product(*self._parsed_mana) copied when the body started, rest the
\* tuples product has still to give, yielded the counters given so far.
Suspended(pools, rest, yielded) ==
    [gi_state |-> "GEN_SUSPENDED", pools |-> pools, rest |-> rest, yielded |-> yielded]

\* The generator after its body returned.
Closed(gen) ==
    [gi_state |-> "GEN_CLOSED", pools |-> gen.pools, rest |-> << >>, yielded |-> gen.yielded]

\* Counter.__eq__ (Python 3.10 and later): all counts agree, a missing
\* count being 0.
Counter_eq(self, rhs) ==
    \A k \in DOMAIN self \cup DOMAIN rhs : Count(self, k) = Count(rhs, k)

\* ComparableCounter.__lt__
ComparableCounter_lt(self, rhs) ==
    \A k \in DOMAIN self : self[k] < Count(rhs, k)

\* ComparableCounter.__le__ written with the strict comparison of __lt__.
ComparableCounter_le_strict(self, rhs) ==
    \A k \in DOMAIN self : self[k] < Count(rhs, k)

\* ComparableCounter.__le__
ComparableCounter_le(self, rhs) ==
    \A k \in DOMAIN self : self[k] <= Count(rhs, k)

\* ManaCost.__eq__ written with all() in place of any().
ManaCost_eq_all(self, rhs) ==
    LET ls == Yield(product(self._parsed_mana))
        rs == Yield(product(rhs._parsed_mana))
    IN  \A i \in 1..Len(ls) : \A j \in 1..Len(rs) : Counter_eq(ls[i], rs[j])

\* ManaCost.__eq__
ManaCost_eq(self, rhs) ==
    LET ls == combinations(self)
        rs == combinations(rhs)
    IN  \E i \in 1..Len(ls) : \E j \in 1..Len(rs) : Counter_eq(ls[i], rs[j])

\* ManaCost.__lt__
ManaCost_lt(self, rhs) ==
    LET ls == combinations(self)
        rs == combinations(rhs)
    IN  \E i \in 1..Len(ls) : \E j \in 1..Len(rs) :
            ComparableCounter_lt(ls[i], rs[j])

\* ManaCost.__le__
ManaCost_le(self, rhs) ==
    LET ls == combinations(self)
        rs == combinations(rhs)
    IN  \E i \in 1..Len(ls) : \E j \in 1..Len(rs) :
            ComparableCounter_le(ls[i], rs[j])

\* ManaCost.__ne__: the default, the negation of __eq__.
ManaCost_ne(self, rhs) == ~ManaCost_eq(self, rhs)

\* ManaCost.__gt__ as total_ordering adds it.  The class defines __lt__ and
\* __le__; total_ordering takes __lt__ as the root and fills in
\* __gt__ = (not self < other) and self != other.
ManaCost_gt(self, rhs) == ~ManaCost_lt(self, rhs) /\ ManaCost_ne(self, rhs)

\* ManaCost.__ge__ as total_ordering adds it: not self < other.
ManaCost_ge(self, rhs) == ~ManaCost_lt(self, rhs)

\* functools.reduce(operator.mul, lens) with no initial value.
RECURSIVE reduce_mul(_)
reduce_mul(lens) ==
    IF Len(lens) = 1 THEN lens[1]
    ELSE reduce_mul(SubSeq(lens, 1, Len(lens) - 1)) * lens[Len(lens)]

\* ManaCost.num_variations: reduce raises TypeError on an empty iterable.
num_variations(self) ==
    LET lens == [i \in 1..Len(self._parsed_mana) |-> Len(self._parsed_mana[i])]
    IN  IF Len(lens) = 0 THEN Raise("TypeError") ELSE ReturnInt(reduce_mul(lens))

\* The generator inside min(...) and max(...) raises ValueError: a token
\* that is not skipped passes isdigit() and int() rejects it.
ContributionRaises(mana) ==
    \E i \in 1..Len(mana) :
        /\ mana[i] \notin {<<"P">>, <<"X">>}
        /\ isdigit(mana[i])
        /\ int_ValueError(mana[i])

\* The values the generator inside min(...) and max(...) yields for one
\* group: P and X are skipped, a digit token gives its value, another 1.
Contributions(mana) ==
    {IF isdigit(mana[i]) THEN int(mana[i]) ELSE 1 :
        i \in {j \in 1..Len(mana) :
                  /\ mana[j] \notin {<<"P">>, <<"X">>}
                  /\ ~(isdigit(mana[j]) /\ int_ValueError(mana[j]))}}

min(S) == CHOOSE m \in S : \A n \in S : m <= n

max(S) == CHOOSE m \in S : \A n \in S : m >= n

RECURSIVE sum(_)
sum(s) == IF Len(s) = 0 THEN 0 ELSE Head(s) + sum(Tail(s))

\* ManaCost.min_mana_cost: min() of an empty generator raises ValueError,
\* as does int() inside the generator.
min_mana_cost(self) ==
    LET pm == self._parsed_mana
    IN  IF \E i \in 1..Len(pm) : ContributionRaises(pm[i]) \/ Contributions(pm[i]) = {}
        THEN Raise("ValueError")
        ELSE ReturnInt(sum([i \in 1..Len(pm) |-> min(Contributions(pm[i]))]))

\* ManaCost.max_mana_cost: as min_mana_cost, with max.
max_mana_cost(self) ==
    LET pm == self._parsed_mana
    IN  IF \E i \in 1..Len(pm) : ContributionRaises(pm[i]) \/ Contributions(pm[i]) = {}
        THEN Raise("ValueError")
        ELSE ReturnInt(sum([i \in 1..Len(pm) |-> max(Contributions(pm[i]))]))

\* ------------------------------------------------------------------ inputs
\* The tokens the generated texts are written with: a colour, the literal
\* zero and a literal of two digits.
Alphabet == {<<"R">>, <<"0">>, <<"1", "2">>}

\* The text of n tokens in which token i + 1 opens a new group when i is
\* in breaks and is a further alternative of the same group otherwise.
RECURSIVE RenderFrom(_, _, _)
RenderFrom(tokens, breaks, i) ==
    IF i > Len(tokens) THEN << >>
    ELSE tokens[i]
         \o (IF i = Len(tokens) THEN <<"}">>
             ELSE IF i \in breaks THEN <<"}", "{">>
             ELSE <<"/">>)
         \o RenderFrom(tokens, breaks, i + 1)

Render(tokens, breaks) ==
    IF Len(tokens) = 0 THEN << >> ELSE <<"{">> \o RenderFrom(tokens, breaks, 1)

\* Every text of at most MaxTokens tokens over Alphabet.
GeneratedTexts ==
    UNION {{Render(ts, bs) : ts \in [1..n -> Alphabet], bs \in SUBSET (1..(n - 1))} :
              n \in 0..MaxTokens}

\* Texts of the test suite and the examples, texts the grammar rejects in
\* part or in whole, and texts with digits outside ASCII (ARABIC-INDIC DIGIT
\* THREE, FULLWIDTH DIGIT FIVE; SUPERSCRIPT TWO is no decimal digit) or
\* with a literal longer than int() converts.
\* The shortest literal int() rejects for its length: zeros and a final 1.
LongLiteral == [i \in 1..(MaxStrDigits + 1) |-> IF i = MaxStrDigits + 1 THEN "1" ELSE "0"]

SampleTexts ==
    { <<"{", "R", "/", "G", "}">>,
      <<"{", "R", "/", "R", "/", "R", "}">>,
      <<"{", "R", "}", "{", "B", "}", "{", "B", "}">>,
      <<"{", "R", "}", "{", "R", "}", "{", "B", "}", "{", "B", "}">>,
      <<"{", "R", "}", "{", "W", "/", "R", "}">>,
      <<"{", "5", "/", "R", "}", "{", "W", "}">>,
      <<"{", "P", "/", "C", "}">>,
      <<"{", "P", "/", "X", "}">>,
      <<"{", "P", "}">>,
      <<"{", "X", "}">>,
      <<"{", "X", "/", "R", "}">>,
      <<"{", "X", "}", "{", "1", "2", "/", "R", "}">>,
      <<"{", "G", "}">>,
      <<"{", "R">>,
      <<"{", "}">>,
      <<"{", "R", "/", "}">>,
      <<"{", "R", "G", "}">>,
      <<"{", "r", "}">>,
      <<"{", "U+0663", "}">>,
      <<"{", "1", "U+FF15", "/", "R", "}">>,
      <<"{", "U+00B2", "}">>,
      <<"{">> \o LongLiteral \o <<"}">>,
      <<"{", "1", "}">>,
      <<"3", "{", "0", "7", "}", " ", "{", "R", "}", "}">> }

Texts == GeneratedTexts \cup SampleTexts

\* The texts __init__ is run with on an object that exists already: no
\* group, one plain group, two hybrid groups.
AgainTexts ==
    { << >>,
      <<"{", "G", "}">>,
      <<"{", "5", "/", "R", "}", "{", "W", "/", "R", "}">> }

\* ----------------------------------------------------------- state machine
\* X and Y are two ManaCost objects, g the generator the caller got from
\* X.combinations; call is the last call made and ret what it gave.
\* Spec is the two-operand behaviour: the callers (the tests, the functions
\* the SQLite example registers) construct the operands and apply one
\* relational operator to them, self being X and rhs Y.
\* SpecOne is the one-operand behaviour, where Y is X: the three scalar
\* properties, the property combinations, which gives a generator, every
\* next() on that generator, and __init__ run again on the object, in any
\* order.
Init ==
    /\ X \in UNION {ManaCost(t) : t \in Texts}
    /\ Y \in UNION {ManaCost(t) : t \in Texts}
    /\ g = NoGenerator
    /\ call = "__init__"
    /\ ret = ReturnNone

InitOne ==
    /\ X \in UNION {ManaCost(t) : t \in Texts}
    /\ Y = X
    /\ g = NoGenerator
    /\ call = "__init__"
    /\ ret = ReturnNone

\* X.__init__(mana_cost) on the existing object: both fields are rebound.
\* A generator that has started keeps the groups product() copied.
ManaCost_init ==
    /\ X' \in UNION {ManaCost(t) : t \in AgainTexts}
    /\ Y' = X'
    /\ call' = "__init__"
    /\ ret' = ReturnNone
    /\ UNCHANGED g

Eq ==
    /\ call = "__init__"
    /\ call' = "__eq__"
    /\ ret' = ReturnBool(ManaCost_eq(X, Y))
    /\ UNCHANGED <<X, Y, g>>

Lt ==
    /\ call = "__init__"
    /\ call' = "__lt__"
    /\ ret' = ReturnBool(ManaCost_lt(X, Y))
    /\ UNCHANGED <<X, Y, g>>

Le ==
    /\ call = "__init__"
    /\ call' = "__le__"
    /\ ret' = ReturnBool(ManaCost_le(X, Y))
    /\ UNCHANGED <<X, Y, g>>

Gt ==
    /\ call = "__init__"
    /\ call' = "__gt__"
    /\ ret' = ReturnBool(ManaCost_gt(X, Y))
    /\ UNCHANGED <<X, Y, g>>

Ge ==
    /\ call = "__init__"
    /\ call' = "__ge__"
    /\ ret' = ReturnBool(ManaCost_ge(X, Y))
    /\ UNCHANGED <<X, Y, g>>

NumVariations ==
    /\ call' = "num_variations"
    /\ ret' = num_variations(X)
    /\ UNCHANGED <<X, Y, g>>

MinManaCost ==
    /\ call' = "min_mana_cost"
    /\ ret' = min_mana_cost(X)
    /\ UNCHANGED <<X, Y, g>>

MaxManaCost ==
    /\ call' = "max_mana_cost"
    /\ ret' = max_mana_cost(X)
    /\ UNCHANGED <<X, Y, g>>

\* Reading the property X.combinations: a new generator object, whose body
\* has not run; the caller keeps it as g.
Combinations ==
    /\ g' = NewGenerator
    /\ call' = "combinations"
    /\ ret' = ReturnGenerator
    /\ UNCHANGED <<X, Y>>

\* next(g).  The first one starts the body: product(*self._parsed_mana)
\* copies the groups X has now.  Each one runs the body up to the next
\* "yield counter", or to its end, where next() raises StopIteration, as
\* it does on a generator that is closed.
GeneratorNext ==
    /\ g.gi_state # "None"
    /\ call' = "__next__"
    /\ LET pools == IF g.gi_state = "GEN_CREATED" THEN X._parsed_mana ELSE g.pools
           todo  == IF g.gi_state = "GEN_CREATED" THEN product(pools) ELSE g.rest
       IN  IF g.gi_state = "GEN_CLOSED" \/ Len(todo) = 0
           THEN /\ g' = Closed(g)
                /\ ret' = Raise("StopIteration")
           ELSE LET counter == CountCombo(Head(todo), ComparableCounter)
                IN  /\ g' = Suspended(pools, Tail(todo), Append(g.yielded, counter))
                    /\ ret' = ReturnCounter(counter)
    /\ UNCHANGED <<X, Y>>

Next ==
    \/ Eq
    \/ Lt
    \/ Le
    \/ Gt
    \/ Ge

NextOne ==
    \/ ManaCost_init
    \/ NumVariations
    \/ MinManaCost
    \/ MaxManaCost
    \/ Combinations
    \/ GeneratorNext

Spec == Init /\ [][Next]_vars

SpecOne == InitOne /\ [][NextOne]_vars

\* ------------------------------------------------- the specification's terms
\* The resolved keys of an interpretation.
Keys == {GENERIC} \cup {<<l>> : l \in Letters}

\* The ways of picking one token from each group of a cost.
Picks(cost) ==
    LET pm == cost._parsed_mana
    IN  {p \in [1..Len(pm) -> UNION {{pm[i][j] : j \in 1..Len(pm[i])} : i \in 1..Len(pm)}] :
            \A i \in 1..Len(pm) : \E j \in 1..Len(pm[i]) : p[i] = pm[i][j]}

RECURSIVE NumericSum(_)
NumericSum(p) ==
    IF Len(p) = 0 THEN 0
    ELSE (IF \A i \in 1..Len(Head(p)) : Head(p)[i] \in Digits THEN int(Head(p)) ELSE 0)
         + NumericSum(Tail(p))

\* The interpretation of one pick: numeric tokens add their value to
\* GENERIC, any other token counts one under its own key.
Interpretation(p) ==
    [k \in Keys |->
        IF k = GENERIC THEN NumericSum(p)
        ELSE Cardinality({i \in 1..Len(p) : p[i] = k})]

Interpretations(cost) == {Interpretation(p) : p \in Picks(cost)}

RECURSIVE SetSum(_, _)
SetSum(f, S) ==
    IF S = {} THEN 0
    ELSE LET k == CHOOSE k \in S : TRUE IN f[k] + SetSum(f, S \ {k})

\* The total of a counter: the sum of all its counts.
Total(counter) == SetSum(counter, DOMAIN counter)

\* The product of the numbers of distinct tokens of the groups of a text.
RECURSIVE DistinctProduct(_)
DistinctProduct(found) ==
    IF Len(found) = 0 THEN 1
    ELSE Cardinality(TokenSet(Head(found))) * DistinctProduct(Tail(found))

\* A group's least and greatest contribution, P and X aside; 0 for a group
\* of P and X only.
GroupMin(mana) == IF Contributions(mana) = {} THEN 0 ELSE min(Contributions(mana))

GroupMax(mana) == IF Contributions(mana) = {} THEN 0 ELSE max(Contributions(mana))

HasPX(cost) ==
    \E i \in 1..Len(cost._parsed_mana) : \E j \in 1..Len(cost._parsed_mana[i]) :
        cost._parsed_mana[i][j] \in {<<"P">>, <<"X">>}

IsHybrid(cost) ==
    \E i \in 1..Len(cost._parsed_mana) : Len(cost._parsed_mana[i]) > 1

RBB == <<"{", "R", "}", "{", "B", "}", "{", "B", "}">>

\* The cost a generator that ran to its end enumerated: the groups it read
\* when its body started.
Enumerated == [_parsed_mana |-> g.pools]

\* ------------------------------------------------------------------ claims
\* C1: for all costs X and Y, X > Y returns the same boolean as Y < X.
C1_GreaterIsSwappedLess ==
    call = "__gt__" => ret = ReturnBool(ManaCost_lt(Y, X))

\* C2: for all costs X and Y, X >= Y returns the same boolean as Y <= X; and
\* X >= '{R}{B}{B}' holds only for an X with an interpretation of at least
\* one red and two black.
C2_GreaterEqIsSwappedLessEq ==
    /\ call = "__ge__" => ret = ReturnBool(ManaCost_le(Y, X))
    /\ (call = "__ge__" /\ Y._mana_cost = RBB /\ ret.bool)
           => \E a \in Interpretations(X) : a[<<"R">>] >= 1 /\ a[<<"B">>] >= 2

\* C3: X == Y is true exactly when some interpretation of X and some
\* interpretation of Y have the same count for every resolved key.
C3_EqualityIsExistential ==
    call = "__eq__" =>
        (ret.bool <=> \E a \in Interpretations(X) : \E b \in Interpretations(Y) :
                        \A k \in Keys : a[k] = b[k])

\* C4: equality is reflexive: C == C is true for every cost C, the cost
\* with no groups included.
C4_EqualityReflexive ==
    (call = "__eq__" /\ X = Y) => ret = ReturnBool(TRUE)

C4_Witness ==
    /\ call = "__eq__"
    /\ X = Y
    /\ X._parsed_mana = << >>
    /\ ret = ReturnBool(TRUE)

\* C5: X < Y is true exactly when some interpretation A of X and some
\* interpretation B of Y have A[k] < B[k] for every key k with a nonzero
\* count in A; a key whose count in A is 0 imposes nothing.
C5_LessThanOverNonzeroKeys ==
    call = "__lt__" =>
        (ret.bool <=> \E a \in Interpretations(X) : \E b \in Interpretations(Y) :
                        \A k \in Keys : a[k] # 0 => a[k] < b[k])

\* C6: num_variations returns the product over the groups of the number of
\* distinct tokens of the group, which is 1 for a cost with no groups.
C6_NumVariationsIsProduct ==
    call = "num_variations" =>
        ret = ReturnInt(DistinctProduct(findall(X._mana_cost, 1)))

\* C7: min_mana_cost and max_mana_cost return the sum over the groups of the
\* least, respectively greatest, contribution among the group's tokens other
\* than P and X; a group of P and X only contributes 0, no groups give 0.
C7_MinMaxAreGroupSums ==
    LET pm == X._parsed_mana
    IN  /\ call = "min_mana_cost" =>
               ret = ReturnInt(sum([i \in 1..Len(pm) |-> GroupMin(pm[i])]))
        /\ call = "max_mana_cost" =>
               ret = ReturnInt(sum([i \in 1..Len(pm) |-> GroupMax(pm[i])]))

\* C8: enumerating the interpretations of a cost yields one per element of
\* the Cartesian product of its groups, so as many as num_variations says,
\* the cost with no groups (one empty interpretation) included.
C8_OnePerPick ==
    g.gi_state = "GEN_CLOSED" =>
        /\ Len(g.yielded) = Cardinality(Picks(Enumerated))
        /\ \A p \in Picks(Enumerated) : \E n \in 1..Len(g.yielded) :
               \A k \in Keys : Count(g.yielded[n], k) = Interpretation(p)[k]
        /\ num_variations(Enumerated) = ReturnInt(Len(g.yielded))

\* C9: for a cost with no P and no X token, the total of every enumerated
\* interpretation lies between min_mana_cost and max_mana_cost inclusive,
\* and both bounds are attained.
C9_TotalsWithinBounds ==
    (g.gi_state = "GEN_CLOSED" /\ ~HasPX(Enumerated)) =>
        LET totals == {Total(g.yielded[n]) : n \in 1..Len(g.yielded)}
            lo     == min_mana_cost(Enumerated)
            hi     == max_mana_cost(Enumerated)
        IN  /\ lo.exc = "" /\ hi.exc = ""
            /\ \A t \in totals : lo.int <= t /\ t <= hi.int
            /\ lo.int \in totals
            /\ hi.int \in totals

\* C10: if X < Y is true or X == Y is true then X <= Y is true.
C10_LessOrEqualContainsBoth ==
    (call = "__le__" /\ (ManaCost_lt(X, Y) \/ ManaCost_eq(X, Y))) => ret = ReturnBool(TRUE)

C10_Witness ==
    /\ call = "__le__"
    /\ ManaCost_eq(X, Y)
    /\ ~ManaCost_lt(X, Y)
    /\ IsHybrid(Y)
    /\ ret = ReturnBool(TRUE)

====
